---- MODULE Spec2Model ----
(***************************************************************************)
(* Session and authorization subsystem of the document-management backend. *)
(* The store (users, refresh tokens, audit log, documents), the clock and   *)
(* the HTTP handlers of backend/src/routes/auth.ts, users.ts and            *)
(* documents.ts are modelled.  Strings that the                             *)
(* code parses (the "rt" cookie) are sequences of characters; a character   *)
(* is a natural number and Dot stands for '.'.  Optional values (undefined  *)
(* or null in the code) are sets with at most one element.                  *)
(***************************************************************************)
EXTENDS Integers, Sequences, FiniteSets, TLC

VARIABLES users, refreshTokens, auditLog, documents, now, ticks, issued, consumed, last, slots

vars == <<users, refreshTokens, auditLog, documents, now, ticks, issued, consumed, last, slots>>

store == <<users, refreshTokens, auditLog>>

-----------------------------------------------------------------------------
(* Bounds of the model *)

\* refresh-token rows the store may hold
MaxTokens == 2
\* clock advances in one behaviour
MaxTicks == 1

-----------------------------------------------------------------------------
(* Program constants; time is counted in seconds *)

\* expiresIn: '15m'
AccessTtl == 900
\* 1000 * 60 * 60 * 24 * 30 ms
RefreshTtl == 2592000
\* speakeasy window
TotpWindow == 2
\* speakeasy time step in seconds
TotpStep == 30
\* z.string().min(8) of loginSchema.password
MinPasswordLen == 8

None == {}
Some(x) == {x}
IsSome(o) == o # {}
The(o) == CHOOSE x \in o : TRUE

-----------------------------------------------------------------------------
(* Strings *)

Dot == 0

RECURSIVE SplitFrom(_, _, _)
\* the segments of str[i..] separated by Dot, cur being the segment so far
SplitFrom(str, i, cur) ==
    IF i > Len(str) THEN <<cur>>
    ELSE IF str[i] = Dot THEN <<cur>> \o SplitFrom(str, i + 1, <<>>)
    ELSE SplitFrom(str, i + 1, Append(cur, str[i]))

\* String.prototype.split('.')
Split(str) == SplitFrom(str, 1, <<>>)

\* the n-th element of an array destructuring: undefined past the end
Nth(arr, n) == IF n <= Len(arr) THEN Some(arr[n]) ELSE None

\* a presence test that takes '' for a value
TruthyNotUndefined(o) == IsSome(o)

\* JavaScript truthiness of an optional string: undefined and '' are falsy
Truthy(o) == IsSome(o) /\ The(o) # <<>>

-----------------------------------------------------------------------------
(* Crypto adapters *)

\* argon2.hash: a salted digest that embeds its salt
Argon2Hash(plain, salt) == [salt |-> salt, digest |-> <<salt, plain>>]

\* argon2.verify: recomputes the digest under the embedded salt
Argon2Verify(hash, plain) == hash.digest = <<hash.salt, plain>>

\* crypto.randomBytes(32).toString('base64url'): the n-th draw; draws never
\* repeat and never contain '.'
RandomBytes(n) == <<10 + n>>

\* the id the store gives its n-th refresh-token row (cuid)
Cuid(n) == <<n>>

\* HOTP value of a secret at a counter, six digits
Hotp(secret, counter) == (secret * 1009 + counter * 7919) % 1000000

\* speakeasy.totp.verify({secret, token, window}) at time t
TotpVerify(secret, token, t) ==
    LET counter == t \div TotpStep
    IN  \E i \in (counter - TotpWindow)..(counter + TotpWindow) :
            i >= 0 /\ Hotp(secret, i) = token

JWT_ACCESS_SECRET == "server-key"

\* jwt.sign(payload, key, {expiresIn: '15m'}) at time t
JwtSign(payload, key, t) ==
    LET claims == [sub |-> payload.sub, rid |-> payload.rid, role |-> payload.role,
                   perms |-> payload.perms, mid |-> payload.mid,
                   iat |-> t, exp |-> t + AccessTtl]
    IN  [claims |-> claims, sig |-> <<key, claims>>]

\* jwt.verify(token, key) at time t: the claims, or None when it throws
JwtVerify(token, key, t) ==
    IF token.sig = <<key, token.claims>> /\ t < token.claims.exp
    THEN Some(token.claims) ELSE None

-----------------------------------------------------------------------------
(* Permission table *)

AllPermissions ==
    <<"merchant:read", "merchant:write", "user:manage", "doc:upload", "doc:view",
      "doc:delete", "kyc:verify", "billing:view", "audit:read", "settings:write">>

ROLE_PERMISSIONS ==
    [ADMIN |-> AllPermissions,
     MERCHANT_ADMIN |-> AllPermissions,
     MERCHANT_MANAGER |-> <<"merchant:read", "user:manage", "doc:upload", "doc:view",
                            "doc:delete", "kyc:verify", "billing:view">>,
     MERCHANT_USER |-> <<"merchant:read", "doc:upload", "doc:view">>,
     READ_ONLY |-> <<"merchant:read", "doc:view", "billing:view">>]

\* names every object literal inherits from Object.prototype
ObjectPrototypeKeys ==
    {"constructor", "toString", "toLocaleString", "valueOf", "hasOwnProperty",
     "isPrototypeOf", "propertyIsEnumerable", "__proto__"}

\* the member of Object.prototype a lookup of an inherited name yields: a
\* function or an object, truthy, and no array of permission strings
InheritedMember(name) == <<"Object.prototype", name>>

\* ROLE_PERMISSIONS[role] || []: the lookup finds own and inherited members
computePermissions(role) ==
    IF role \in DOMAIN ROLE_PERMISSIONS THEN ROLE_PERMISSIONS[role]
    ELSE IF role \in ObjectPrototypeKeys THEN InheritedMember(role)
    ELSE <<>>

-----------------------------------------------------------------------------
(* The store *)

CorrectPassword == <<1, 2, 3, 4, 5, 6, 7, 8>>
WrongPassword == <<8, 7, 6, 5, 4, 3, 2, 1>>
ShortPassword == <<1, 2, 3>>

\* the two seeded accounts, the second with 2FA enrolled; an invited user
\* who has not accepted yet; a user with 2FA whom an admin has deactivated
SeedUsers ==
    [u1 |-> [id |-> "u1", email |-> "admin@dms.com",
             passwordHash |-> Argon2Hash(CorrectPassword, 1), role |-> "ADMIN",
             merchantId |-> None, isActive |-> TRUE, twoFASecret |-> None],
     u2 |-> [id |-> "u2", email |-> "admin@acmecorp.com",
             passwordHash |-> Argon2Hash(CorrectPassword, 2), role |-> "MERCHANT_ADMIN",
             merchantId |-> Some("m1"), isActive |-> TRUE, twoFASecret |-> Some(5)],
     u3 |-> [id |-> "u3", email |-> "invited@acmecorp.com",
             passwordHash |-> Argon2Hash(CorrectPassword, 3), role |-> "MERCHANT_USER",
             merchantId |-> Some("m1"), isActive |-> FALSE, twoFASecret |-> None],
     u4 |-> [id |-> "u4", email |-> "former@acmecorp.com",
             passwordHash |-> Argon2Hash(CorrectPassword, 4), role |-> "READ_ONLY",
             merchantId |-> Some("m1"), isActive |-> FALSE, twoFASecret |-> Some(6)]]

\* the id prisma gives the n-th document
DocumentId(n) == <<"doc", n>>

\* an object key under the prefix of a merchant: merchants/<merchantId>/<name>
StorageKey(merchantId, name) == <<"merchants", merchantId, name>>

\* one document of each of two merchants
SeedDocuments ==
    <<[id |-> DocumentId(1), merchantId |-> "m1", uploadedById |-> "u2",
       storageKey |-> StorageKey("m1", "a"), isDeleted |-> FALSE],
      [id |-> DocumentId(2), merchantId |-> "m2", uploadedById |-> "u1",
       storageKey |-> StorageKey("m2", "b"), isDeleted |-> FALSE]>>

\* prisma.user.findUnique({where: {email}})
FindUserByEmail(us, email) == {us[i] : i \in {j \in DOMAIN us : us[j].email = email}}

\* prisma.refreshToken.findUnique({where: {id}})
FindToken(rts, id) == {rts[i] : i \in {j \in DOMAIN rts : rts[j].id = id}}

\* a create that also ends the earlier sessions of the user
CreateRefreshTokenSingleSession(rts, userId, t) ==
    LET n == Len(rts) + 1
    IN  Append([i \in DOMAIN rts |-> IF rts[i].userId = userId
                                     THEN [rts[i] EXCEPT !.revokedAt = Some(t)]
                                     ELSE rts[i]],
               [id |-> Cuid(n), userId |-> userId,
                tokenHash |-> Argon2Hash(RandomBytes(n), n),
                expiresAt |-> t + RefreshTtl, revokedAt |-> None])

\* prisma.refreshToken.create at time t; the raw secret is the next random draw
CreateRefreshToken(rts, userId, t) ==
    LET n == Len(rts) + 1
    IN  Append(rts, [id |-> Cuid(n), userId |-> userId,
                     tokenHash |-> Argon2Hash(RandomBytes(n), n),
                     expiresAt |-> t + RefreshTtl, revokedAt |-> None])

\* an update that clears revokedAt where it is set
RevokeTokenToggle(rts, id, t) ==
    [i \in DOMAIN rts |->
        IF rts[i].id = id
        THEN [rts[i] EXCEPT !.revokedAt = IF rts[i].revokedAt = None THEN Some(t) ELSE None]
        ELSE rts[i]]

\* prisma.refreshToken.update({where: {id}, data: {revokedAt: new Date()}})
RevokeToken(rts, id, t) ==
    [i \in DOMAIN rts |-> IF rts[i].id = id THEN [rts[i] EXCEPT !.revokedAt = Some(t)]
                          ELSE rts[i]]

\* a cascade that skips the rows already past their expiry
RevokeLiveForUser(rts, userId, t) ==
    [i \in DOMAIN rts |-> IF rts[i].userId = userId /\ ~(rts[i].expiresAt < t)
                          THEN [rts[i] EXCEPT !.revokedAt = Some(t)]
                          ELSE rts[i]]

\* a cascade without the where clause
RevokeAllForEveryUser(rts, userId, t) ==
    [i \in DOMAIN rts |-> [rts[i] EXCEPT !.revokedAt = Some(t)]]

\* prisma.refreshToken.updateMany({where: {userId}, data: {revokedAt: new Date()}})
RevokeAllForUser(rts, userId, t) ==
    [i \in DOMAIN rts |-> IF rts[i].userId = userId
                          THEN [rts[i] EXCEPT !.revokedAt = Some(t)]
                          ELSE rts[i]]

\* prisma.auditLog.create
CreateAudit(log, actorId, action) == Append(log, [actorId |-> actorId, action |-> action])

-----------------------------------------------------------------------------
(* Responses *)

Response(status, error) ==
    [status |-> status, error |-> error, requires2FA |-> FALSE,
     accessToken |-> None, cookie |-> None, user |-> None]

\* the body and the rt cookie of a successful login or refresh
TokenResponse(user, accessToken, tokenId, raw) ==
    [status |-> 200, error |-> "", requires2FA |-> FALSE,
     accessToken |-> Some(accessToken),
     cookie |-> Some(tokenId \o <<Dot>> \o raw),
     user |-> Some([id |-> user.id, email |-> user.email, role |-> user.role,
                    merchantId |-> user.merchantId])]

\* the access token both handlers mint for a user and a new refresh row
MintAccessToken(user, tokenId, t) ==
    JwtSign([sub |-> user.id, rid |-> tokenId, role |-> user.role,
             perms |-> computePermissions(user.role), mid |-> user.merchantId],
            JWT_ACCESS_SECRET, t)

-----------------------------------------------------------------------------
(* POST /api/auth/login *)

EmailShaped ==
    {"admin@dms.com", "admin@acmecorp.com", "invited@acmecorp.com",
     "former@acmecorp.com", "nobody@dms.com"}

\* loginSchema.parse(req.body) does not throw
LoginSchemaOk(req) == req.email \in EmailShaped /\ Len(req.password) >= MinPasswordLen

\* a check that forgets the active flag
UserFound(user) == IsSome(user)

\* the account may log in at all: it exists and is active
UserUsable(user) == IsSome(user) /\ The(user).isActive

\* a second factor that asks for a code and does not verify it
TwoFactorPresenceOnly(user, totpCode, t) ==
    IF ~IsSome(user.twoFASecret) THEN None
    ELSE IF ~IsSome(totpCode)
         THEN Some([Response(401, "2FA code required") EXCEPT !.requires2FA = TRUE])
    ELSE None

\* the second factor of a user with twoFASecret set: the early response, if any
TwoFactorReject(user, totpCode, t) ==
    IF ~IsSome(user.twoFASecret) THEN None
    ELSE IF ~IsSome(totpCode)
         THEN Some([Response(401, "2FA code required") EXCEPT !.requires2FA = TRUE])
    ELSE IF ~TotpVerify(The(user.twoFASecret), The(totpCode), t)
         THEN Some(Response(401, "Invalid 2FA code"))
    ELSE None

\* a handler that asks for the second factor before it verifies the password
LoginRejectTwoFactorFirst(user, req, t) ==
    IF ~LoginSchemaOk(req) THEN Some(Response(500, "Login failed"))
    ELSE IF ~UserUsable(user) THEN Some(Response(401, "Invalid credentials"))
    ELSE IF IsSome(TwoFactorReject(The(user), req.totpCode, t))
         THEN TwoFactorReject(The(user), req.totpCode, t)
    ELSE IF ~Argon2Verify(The(user).passwordHash, req.password)
         THEN Some(Response(401, "Invalid credentials"))
    ELSE None

\* the checks of the handler up to "Generate tokens": the early response, or
\* None when the handler goes on to issue tokens for the user it read
LoginReject(user, req, t) ==
    IF ~LoginSchemaOk(req) THEN Some(Response(500, "Login failed"))
    ELSE IF ~UserUsable(user) THEN Some(Response(401, "Invalid credentials"))
    ELSE IF ~Argon2Verify(The(user).passwordHash, req.password)
         THEN Some(Response(401, "Invalid credentials"))
    ELSE TwoFactorReject(The(user), req.totpCode, t)

\* the response of a login that created row `row` for `user`
LoginResponse(user, row, n, t) ==
    TokenResponse(user, MintAccessToken(user, row.id, t), row.id, RandomBytes(n))

-----------------------------------------------------------------------------
(* POST /api/auth/refresh *)

\* const [tokenId, rawToken] = refreshCookie.split('.')
CookieTokenId(cookie) == Nth(Split(The(cookie)), 1)
CookieRawToken(cookie) == Nth(Split(The(cookie)), 2)

\* the checks made before the store is read: the early response, if any
RefreshParseReject(cookie) ==
    IF ~Truthy(cookie) THEN Some(Response(401, "No refresh token"))
    ELSE IF ~Truthy(CookieTokenId(cookie)) \/ ~Truthy(CookieRawToken(cookie))
         THEN Some(Response(401, "Invalid refresh token format"))
    ELSE None

\* a check that forgets the expiry
TokenUnusableNoExpiry(stored, t) ==
    \/ ~IsSome(stored)
    \/ IsSome(The(stored).revokedAt)

\* a check that forgets the revocation
TokenUnusableNoRevocation(stored, t) ==
    \/ ~IsSome(stored)
    \/ The(stored).expiresAt < t

\* !storedToken || storedToken.revokedAt || storedToken.expiresAt < new Date()
TokenUnusable(stored, t) ==
    \/ ~IsSome(stored)
    \/ IsSome(The(stored).revokedAt)
    \/ The(stored).expiresAt < t

\* argon2.verify(storedToken.tokenHash, rawToken)
ValidToken(stored, cookie) ==
    Argon2Verify(The(stored).tokenHash, The(CookieRawToken(cookie)))

\* a response whose access token still names the row before the newest
RefreshResponseStaleRid(user, row, n, t) ==
    TokenResponse(user, MintAccessToken(user, Cuid(n - 1), t), row.id, RandomBytes(n))

\* the response of a refresh that created row `row` for `user`
RefreshResponse(user, row, n, t) ==
    TokenResponse(user, MintAccessToken(user, row.id, t), row.id, RandomBytes(n))

-----------------------------------------------------------------------------
(* requireAuth and POST /api/auth/logout *)

\* a guard that also looks up the refresh-token row the token names
RequireAuthRejectRevoked(bearer, t) ==
    IF ~IsSome(bearer) THEN Some(Response(401, "Missing token"))
    ELSE IF ~IsSome(JwtVerify(The(bearer), JWT_ACCESS_SECRET, t))
         THEN Some(Response(401, "Invalid/expired token"))
    ELSE IF \E i \in DOMAIN refreshTokens :
                /\ refreshTokens[i].id = The(bearer).claims.rid
                /\ IsSome(refreshTokens[i].revokedAt)
         THEN Some(Response(401, "Invalid/expired token"))
    ELSE None

\* requireAuth: the 401 it answers with, or None when it calls next()
RequireAuthReject(bearer, t) ==
    IF ~IsSome(bearer) THEN Some(Response(401, "Missing token"))
    ELSE IF ~IsSome(JwtVerify(The(bearer), JWT_ACCESS_SECRET, t))
         THEN Some(Response(401, "Invalid/expired token"))
    ELSE None

\* the row the handler updates: the one named by the first part of the
\* cookie, when there is a cookie and the part is not empty
LogoutTarget(cookie) ==
    IF Truthy(cookie) /\ Truthy(CookieTokenId(cookie)) THEN CookieTokenId(cookie) ELSE None

-----------------------------------------------------------------------------
(* Requests *)

EmptyReq == [email |-> "", password |-> <<>>, totpCode |-> None,
             cookie |-> None, bearer |-> None]

LoginReq(e, p, c) == [EmptyReq EXCEPT !.email = e, !.password = p, !.totpCode = c]

\* a TOTP code the holder of `secret` reads off at time t, d steps ahead
CodeAt(secret, t, d) == Hotp(secret, (t \div TotpStep) + d)

\* every address with the right and a wrong password and no code; the 2FA
\* accounts with the current code; u2 with the last code of the window and
\* the first code outside it; a password the schema rejects
LoginInputs(t) ==
    {LoginReq(e, p, None) :
        e \in EmailShaped \cup {"not-an-email"}, p \in {CorrectPassword, WrongPassword}}
    \cup {LoginReq(e, p, Some(CodeAt(5, t, 0))) :
        e \in {"admin@acmecorp.com", "former@acmecorp.com"},
        p \in {CorrectPassword, WrongPassword}}
    \cup {LoginReq("admin@acmecorp.com", CorrectPassword, Some(CodeAt(5, t, d))) :
        d \in {TotpWindow, TotpWindow + 1}}
    \cup {LoginReq("admin@dms.com", ShortPassword, None)}

\* the cookie the server set for its i-th row
IssuedCookie(i) == Cuid(i) \o <<Dot>> \o RandomBytes(i)

\* the id of the i-th row with the secret of another row
TamperedCookie(i) == Cuid(i) \o <<Dot>> \o RandomBytes((i % MaxTokens) + 1)

\* cookies of the form recordId.secret, for stored and unknown record ids and
\* for right and wrong secrets
WellFormedCookies ==
    {IssuedCookie(i) : i \in 1..(MaxTokens + 1)} \cup {TamperedCookie(i) : i \in 1..MaxTokens}

\* cookies with a part missing, and one with a part too many
OddCookies ==
    {<<>>, <<Dot>>, Cuid(1), Cuid(1) \o <<Dot>>, <<Dot>> \o RandomBytes(1),
     IssuedCookie(1) \o <<Dot>> \o RandomBytes(2)}

CookieInputs == {None} \cup {Some(c) : c \in WellFormedCookies \cup OddCookies}

RefreshInputs == {[EmptyReq EXCEPT !.cookie = c] : c \in CookieInputs}

\* the access token the server signed last
NewestIssued == {x \in issued : \A y \in issued : y.claims.rid[1] <= x.claims.rid[1]}

\* a logout comes with the newest access token and with the cookie set along
\* with it, with the cookie of an unknown row, or with none
LogoutInputs ==
    UNION {{[EmptyReq EXCEPT !.bearer = Some(tok), !.cookie = c] :
               c \in {None, Some(IssuedCookie(tok.claims.rid[1])),
                      Some(IssuedCookie(MaxTokens + 1))}} :
           tok \in NewestIssued}

-----------------------------------------------------------------------------
(* The handlers, each run to completion *)

\* the record of the last call: its request, its response, when it ran, the
\* store and the signed access tokens it found, the store calls it made, and
\* whether its cookie had
\* already been rotated successfully by an earlier refresh
Done(op, req, res, calls) ==
    [op |-> op, req |-> req, res |-> res, at |-> now, before |-> store,
     documentsBefore |-> documents, issuedBefore |-> issued, calls |-> calls, reused |-> req.cookie # None /\ req.cookie \subseteq consumed]

NoCall == Done("none", EmptyReq, Response(0, ""), <<>>)

Login(req) ==
    LET user == FindUserByEmail(users, req.email)
        rej == LoginReject(user, req, now)
    IN  IF IsSome(rej)
        THEN /\ last' = Done("login", req, The(rej),
                             IF LoginSchemaOk(req) THEN <<"user.findUnique">> ELSE <<>>)
             /\ UNCHANGED <<users, refreshTokens, auditLog, issued>>
        ELSE /\ Len(refreshTokens) < MaxTokens
             /\ LET rts == CreateRefreshToken(refreshTokens, The(user).id, now)
                    n == Len(rts)
                    res == LoginResponse(The(user), rts[n], n, now)
                IN  /\ refreshTokens' = rts
                    /\ auditLog' = CreateAudit(auditLog, The(user).id, "AUTH.LOGIN")
                    /\ issued' = issued \cup res.accessToken
                    /\ last' = Done("login", req, res,
                                    <<"user.findUnique", "refreshToken.create",
                                      "auditLog.create">>)
             /\ UNCHANGED users

\* what the handler does with a cookie, given the rows it finds at time t
RefreshDecision(rts, cookie, t) ==
    IF IsSome(RefreshParseReject(cookie)) THEN "reject"
    ELSE LET stored == FindToken(rts, The(CookieTokenId(cookie)))
         IN  IF TokenUnusable(stored, t) THEN "invalid"
             ELSE IF ~ValidToken(stored, cookie) THEN "reuse"
             ELSE "rotate"

Refresh(req) ==
    LET cookie == req.cookie
        decision == RefreshDecision(refreshTokens, cookie, now)
        stored == FindToken(refreshTokens, The(CookieTokenId(cookie)))
    IN  \/ /\ decision = "reject"
           /\ last' = Done("refresh", req, The(RefreshParseReject(cookie)), <<>>)
           /\ UNCHANGED <<store, issued, consumed>>
        \/ /\ decision = "invalid"
           /\ last' = Done("refresh", req, Response(401, "Invalid or expired refresh token"),
                           <<"refreshToken.findUnique">>)
           /\ UNCHANGED <<store, issued, consumed>>
        \/ /\ decision = "reuse"
           /\ refreshTokens' = RevokeAllForUser(refreshTokens, The(stored).userId, now)
           /\ last' = Done("refresh", req, Response(401, "Token reuse detected"),
                           <<"refreshToken.findUnique", "refreshToken.updateMany">>)
           /\ UNCHANGED <<users, auditLog, issued, consumed>>
        \/ /\ decision = "rotate"
           /\ Len(refreshTokens) < MaxTokens
           /\ LET user == users[The(stored).userId]
                  rts == CreateRefreshToken(
                             RevokeToken(refreshTokens, The(CookieTokenId(cookie)), now),
                             The(stored).userId, now)
                  n == Len(rts)
                  res == RefreshResponse(user, rts[n], n, now)
              IN  /\ refreshTokens' = rts
                  /\ issued' = issued \cup res.accessToken
                  /\ last' = Done("refresh", req, res,
                                  <<"refreshToken.findUnique", "refreshToken.update",
                                    "refreshToken.create">>)
           /\ consumed' = consumed \cup cookie
           /\ UNCHANGED <<users, auditLog>>

Logout(req) ==
    LET authRej == RequireAuthReject(req.bearer, now)
        target == LogoutTarget(req.cookie)
    IN  IF IsSome(authRej)
        THEN /\ last' = Done("logout", req, The(authRej), <<>>)
             /\ UNCHANGED store
        ELSE IF ~IsSome(target)
        THEN /\ last' = Done("logout", req, Response(200, ""), <<>>)
             /\ UNCHANGED store
        ELSE IF ~IsSome(FindToken(refreshTokens, The(target)))
        THEN \* prisma.refreshToken.update throws: no row to update
             /\ last' = Done("logout", req, Response(500, "Logout failed"),
                             <<"refreshToken.update">>)
             /\ UNCHANGED store
        ELSE /\ refreshTokens' = RevokeToken(refreshTokens, The(target), now)
             /\ last' = Done("logout", req, Response(200, ""), <<"refreshToken.update">>)
             /\ UNCHANGED <<users, auditLog>>

-----------------------------------------------------------------------------
(* The handlers, one store call at a time.  Each handler awaits every prisma *)
(* call, so the event loop may run other requests between two of them; the  *)
(* checks between the calls read nothing but the handler's own locals.      *)

\* two requests in flight at once
Slots == {"a", "b"}

\* a request: its handler, the store call it awaits next, its request, the
\* response prepared so far, and the locals storedToken and user
IdleSlot ==
    [op |-> "idle", pc |-> "idle", req |-> EmptyReq, res |-> Response(0, ""),
     stored |-> None, user |-> None]

Free(s) == slots[s].pc \in {"idle", "done"}

\* rows the store may hold while requests race: a login and two rotations
RaceTokens == MaxTokens + 1

\* requests in flight that have yet to create their row
Creators == {s \in Slots : slots[s].pc \in {"create", "revoke"}}

RoomToCreate == Len(refreshTokens) + Cardinality(Creators) < RaceTokens

Finished(op, req, res) == [IdleSlot EXCEPT !.op = op, !.pc = "done", !.req = req, !.res = res]

\* the request arrives; prisma.user.findUnique; the checks up to "Generate tokens"
LoginStart(s, req) ==
    LET user == FindUserByEmail(users, req.email)
        rej == LoginReject(user, req, now)
    IN  /\ Free(s)
        /\ IF IsSome(rej)
           THEN slots' = [slots EXCEPT ![s] = Finished("login", req, The(rej))]
           ELSE /\ RoomToCreate
                /\ slots' = [slots EXCEPT ![s] =
                       [IdleSlot EXCEPT !.op = "login", !.pc = "create", !.req = req,
                                        !.user = user]]
        /\ UNCHANGED <<store, documents, now, ticks, issued, consumed, last>>

\* prisma.refreshToken.create; jwt.sign; res.cookie
LoginCreate(s) ==
    /\ slots[s].op = "login" /\ slots[s].pc = "create"
    /\ LET user == The(slots[s].user)
           rts == CreateRefreshToken(refreshTokens, user.id, now)
           n == Len(rts)
           res == LoginResponse(user, rts[n], n, now)
       IN  /\ refreshTokens' = rts
           /\ issued' = issued \cup res.accessToken
           /\ slots' = [slots EXCEPT ![s].pc = "audit", ![s].res = res]
    /\ UNCHANGED <<users, auditLog, documents, now, ticks, consumed, last>>

\* prisma.auditLog.create; res.json
LoginAudit(s) ==
    /\ slots[s].op = "login" /\ slots[s].pc = "audit"
    /\ auditLog' = CreateAudit(auditLog, The(slots[s].user).id, "AUTH.LOGIN")
    /\ slots' = [slots EXCEPT ![s] = Finished("login", slots[s].req, slots[s].res)]
    /\ UNCHANGED <<users, refreshTokens, documents, now, ticks, issued, consumed, last>>

\* the request arrives; the cookie is parsed; prisma.refreshToken.findUnique
\* with its user; the checks on the row read
RefreshStart(s, req) ==
    LET cookie == req.cookie
        decision == RefreshDecision(refreshTokens, cookie, now)
        stored == FindToken(refreshTokens, The(CookieTokenId(cookie)))
        inFlight(pc) == [IdleSlot EXCEPT !.op = "refresh", !.pc = pc, !.req = req,
                                         !.stored = stored,
                                         !.user = Some(users[The(stored).userId])]
    IN  /\ Free(s)
        /\ \/ /\ decision = "reject"
              /\ slots' = [slots EXCEPT ![s] =
                     Finished("refresh", req, The(RefreshParseReject(cookie)))]
           \/ /\ decision = "invalid"
              /\ slots' = [slots EXCEPT ![s] =
                     Finished("refresh", req,
                              Response(401, "Invalid or expired refresh token"))]
           \/ /\ decision = "reuse"
              /\ slots' = [slots EXCEPT ![s] = inFlight("revokeAll")]
           \/ /\ decision = "rotate"
              /\ RoomToCreate
              /\ slots' = [slots EXCEPT ![s] = inFlight("revoke")]
        /\ UNCHANGED <<store, documents, now, ticks, issued, consumed, last>>

\* prisma.refreshToken.updateMany; res.status(401)
RefreshRevokeAll(s) ==
    /\ slots[s].op = "refresh" /\ slots[s].pc = "revokeAll"
    /\ refreshTokens' = RevokeAllForUser(refreshTokens, The(slots[s].stored).userId, now)
    /\ slots' = [slots EXCEPT ![s] =
           Finished("refresh", slots[s].req, Response(401, "Token reuse detected"))]
    /\ UNCHANGED <<users, auditLog, documents, now, ticks, issued, consumed, last>>

\* prisma.refreshToken.update of the row named by the cookie
RefreshRevoke(s) ==
    /\ slots[s].op = "refresh" /\ slots[s].pc = "revoke"
    /\ refreshTokens' =
           RevokeToken(refreshTokens, The(CookieTokenId(slots[s].req.cookie)), now)
    /\ slots' = [slots EXCEPT ![s].pc = "create"]
    /\ UNCHANGED <<users, auditLog, documents, now, ticks, issued, consumed, last>>

\* prisma.refreshToken.create; jwt.sign; res.cookie; res.json
RefreshCreate(s) ==
    /\ slots[s].op = "refresh" /\ slots[s].pc = "create"
    /\ LET rts == CreateRefreshToken(refreshTokens, The(slots[s].stored).userId, now)
           n == Len(rts)
           res == RefreshResponse(The(slots[s].user), rts[n], n, now)
       IN  /\ refreshTokens' = rts
           /\ issued' = issued \cup res.accessToken
           /\ slots' = [slots EXCEPT ![s] = Finished("refresh", slots[s].req, res)]
    /\ consumed' = consumed \cup slots[s].req.cookie
    /\ UNCHANGED <<users, auditLog, documents, now, ticks, last>>

\* the clock may run up to the expiry of a refresh token, or just past it
TickSteps == {RefreshTtl, RefreshTtl + 1}

Tick(d) ==
    /\ ticks < MaxTicks
    /\ now' = now + d
    /\ ticks' = ticks + 1
    /\ last' = [NoCall EXCEPT !.at = now']
    /\ UNCHANGED <<store, documents, issued, consumed, slots>>

Init ==
    /\ users = SeedUsers
    /\ refreshTokens = <<>>
    /\ auditLog = <<>>
    /\ documents = SeedDocuments
    /\ now = 0
    /\ ticks = 0
    /\ issued = {}
    /\ consumed = {}
    /\ last = NoCall
    /\ slots = [s \in Slots |-> IdleSlot]

\* the logins that succeed: u1 with its password, u2 with password and code
SessionLogins(t) ==
    {LoginReq("admin@dms.com", CorrectPassword, None),
     LoginReq("admin@acmecorp.com", CorrectPassword, Some(CodeAt(5, t, 0)))}

DoSessionLogin ==
    \E req \in SessionLogins(now) : Login(req) /\ UNCHANGED <<documents, now, ticks, consumed, slots>>

DoLogin == \E req \in LoginInputs(now) : Login(req) /\ UNCHANGED <<documents, now, ticks, consumed, slots>>

DoRefresh == \E req \in RefreshInputs : Refresh(req) /\ UNCHANGED <<documents, now, ticks, slots>>

DoLogout ==
    \E req \in LogoutInputs : Logout(req) /\ UNCHANGED <<documents, now, ticks, issued, consumed, slots>>

DoTick == \E d \in TickSteps : Tick(d)

\* sessions: logins that succeed, refreshes with every kind of cookie, the clock
Next == DoSessionLogin \/ DoRefresh \/ DoTick

Spec == Init /\ [][Next]_vars

\* logins with every kind of input, and the clock
LoginNext == DoLogin \/ DoTick

LoginSpec == Init /\ [][LoginNext]_vars

\* the cookies the server set, and the same record ids with another secret
RaceCookies ==
    {Some(IssuedCookie(i)) : i \in 1..MaxTokens} \cup {Some(TamperedCookie(1))}

StartLogin == \E s \in Slots : \E req \in SessionLogins(now) : LoginStart(s, req)

StartRefresh ==
    \E s \in Slots : \E c \in RaceCookies : RefreshStart(s, [EmptyReq EXCEPT !.cookie = c])

StepLoginCreate == \E s \in Slots : LoginCreate(s)
StepLoginAudit == \E s \in Slots : LoginAudit(s)
StepRefreshRevokeAll == \E s \in Slots : RefreshRevokeAll(s)
StepRefreshRevoke == \E s \in Slots : RefreshRevoke(s)
StepRefreshCreate == \E s \in Slots : RefreshCreate(s)

\* two requests at a time, interleaved at their store calls
RaceNext ==
    \/ StartLogin \/ StepLoginCreate \/ StepLoginAudit
    \/ StartRefresh \/ StepRefreshRevokeAll \/ StepRefreshRevoke \/ StepRefreshCreate
    \/ DoTick

RaceSpec == Init /\ [][RaceNext]_vars

\* one client: a single login, then refreshes one after another, each with
\* the cookie the response before it set
RoundTripLogin ==
    /\ refreshTokens = <<>>
    /\ slots["a"].pc = "idle"
    /\ \E req \in SessionLogins(now) : LoginStart("a", req)

RoundTripRefresh ==
    /\ slots["a"].pc = "done"
    /\ slots["a"].res.status = 200
    /\ RefreshStart("a", [EmptyReq EXCEPT !.cookie = slots["a"].res.cookie])

RoundTripNext ==
    \/ RoundTripLogin \/ LoginCreate("a") \/ LoginAudit("a")
    \/ RoundTripRefresh \/ RefreshRevoke("a") \/ RefreshCreate("a")
    \/ DoTick

RoundTripSpec == Init /\ [][RoundTripNext]_vars

-----------------------------------------------------------------------------
(* What the claims speak of *)

BeforeUsers == last.before[1]
BeforeTokens == last.before[2]
BeforeAudit == last.before[3]

\* the cookie of the last call has the form recordId.secret
LastWellFormed ==
    /\ IsSome(last.req.cookie)
    /\ LET parts == Split(The(last.req.cookie))
       IN  Len(parts) >= 2 /\ parts[1] # <<>> /\ parts[2] # <<>>

LastRecordId == Split(The(last.req.cookie))[1]
LastSecret == Split(The(last.req.cookie))[2]

\* the rows the last call found under the record id of its cookie
LastNamed == {i \in DOMAIN BeforeTokens : BeforeTokens[i].id = LastRecordId}

\* a row is ACTIVE at time t
Active(row, t) == row.revokedAt = None /\ ~(row.expiresAt < t)

Revoked(row) == row.revokedAt # None

\* the last call was a refresh of a row that was ACTIVE when it ran
LastRefreshOfActive ==
    /\ last.op = "refresh"
    /\ LastWellFormed
    /\ \E i \in LastNamed : Active(BeforeTokens[i], last.at)

\* C2: a refresh with a secret that an earlier refresh rotated fails with
\* ReuseDetected and leaves every row of the owner revoked
C2_ReuseOfRotatedSecretCascades ==
    (last.op = "refresh" /\ last.reused) =>
        /\ last.res = Response(401, "Token reuse detected")
        /\ \A i \in LastNamed : \A j \in DOMAIN refreshTokens :
               refreshTokens[j].userId = BeforeTokens[i].userId => Revoked(refreshTokens[j])

C5_TamperedSecretRevokesFamily ==
    (LastRefreshOfActive
        /\ \A i \in LastNamed : ~Argon2Verify(BeforeTokens[i].tokenHash, LastSecret)) =>
        /\ last.res = Response(401, "Token reuse detected")
        /\ Len(refreshTokens) = Len(BeforeTokens)
        /\ issued = last.issuedBefore
        /\ \A i \in LastNamed : \A j \in DOMAIN refreshTokens :
               refreshTokens[j].userId = BeforeTokens[i].userId => Revoked(refreshTokens[j])

\* the cascade ran for an owner with an ACTIVE row besides the named one
C5_Witness ==
    /\ LastRefreshOfActive
    /\ last.res.error = "Token reuse detected"
    /\ \E i \in LastNamed : \E j \in DOMAIN BeforeTokens :
           /\ j # i
           /\ BeforeTokens[j].userId = BeforeTokens[i].userId
           /\ Active(BeforeTokens[j], last.at)
           /\ Revoked(refreshTokens[j])

\* C6: a refresh with a well-formed cookie that names no row, a revoked row or
\* a row past expiresAt fails with InvalidOrExpiredToken and writes nothing
C6_UnusableRowRejectedPassively ==
    (/\ last.op = "refresh"
     /\ LastWellFormed
     /\ \A i \in LastNamed :
            Revoked(BeforeTokens[i]) \/ BeforeTokens[i].expiresAt < last.at) =>
        /\ last.res = Response(401, "Invalid or expired refresh token")
        /\ store = last.before
        /\ issued = last.issuedBefore
        /\ last.calls = <<"refreshToken.findUnique">>

\* the row was never revoked and its secret verifies: only the expiry stops it
C6_Witness ==
    /\ last.op = "refresh"
    /\ LastWellFormed
    /\ last.res.error = "Invalid or expired refresh token"
    /\ \E i \in LastNamed :
           /\ ~Revoked(BeforeTokens[i])
           /\ BeforeTokens[i].expiresAt < last.at
           /\ Argon2Verify(BeforeTokens[i].tokenHash, LastSecret)

\* the responses of the handler to input it cannot parse
MalformedToken ==
    {Response(401, "No refresh token"), Response(401, "Invalid refresh token format")}

\* C7: a refresh whose cookie lacks the record id or the secret fails with
\* MalformedToken without a store call: the store is unchanged, no audit row
C7_MalformedRejectedBeforeStore ==
    (last.op = "refresh" /\ ~LastWellFormed) =>
        /\ last.res \in MalformedToken
        /\ last.calls = <<>>
        /\ store = last.before
        /\ auditLog = BeforeAudit

\* a cookie with both parts empty was turned down while the store holds rows
C7_Witness ==
    /\ last.op = "refresh"
    /\ last.req.cookie = Some(<<Dot>>)
    /\ last.res = Response(401, "Invalid refresh token format")
    /\ refreshTokens # <<>>

\* the users the last login found under its email
LastUsers == {u \in DOMAIN BeforeUsers : BeforeUsers[u].email = last.req.email}

\* C8: a successful login creates exactly one row, ACTIVE and owned by the
\* user, changes no other row, and returns one access token whose rid is the
\* new row's id and whose sub is the user's id
C8_LoginCreatesOneActiveRow ==
    (last.op = "login" /\ last.res.status = 200) =>
        LET n == Len(refreshTokens)
        IN  /\ n = Len(BeforeTokens) + 1
            /\ \A i \in DOMAIN BeforeTokens : refreshTokens[i] = BeforeTokens[i]
            /\ \A i \in DOMAIN BeforeTokens : refreshTokens[i].id # refreshTokens[n].id
            /\ Active(refreshTokens[n], last.at)
            /\ Cardinality(last.res.accessToken) = 1
            /\ issued = last.issuedBefore \cup last.res.accessToken
            /\ \A tok \in last.res.accessToken :
                   /\ tok.claims.rid = refreshTokens[n].id
                   /\ IsSome(JwtVerify(tok, JWT_ACCESS_SECRET, last.at))
                   /\ \A u \in LastUsers :
                          /\ tok.claims.sub = BeforeUsers[u].id
                          /\ refreshTokens[n].userId = BeforeUsers[u].id
            /\ LastUsers # {}

\* a user without 2FA logged in while holding an ACTIVE row already
C8_Witness ==
    /\ last.op = "login" /\ last.res.status = 200
    /\ \E u \in LastUsers : BeforeUsers[u].twoFASecret = None
    /\ \E i \in DOMAIN BeforeTokens :
           /\ Active(BeforeTokens[i], last.at)
           /\ \E u \in LastUsers : BeforeTokens[i].userId = u

\* the last call was a login whose body the schema accepts
LastLoginParsed ==
    /\ last.op = "login"
    /\ last.req.email \in EmailShaped
    /\ Len(last.req.password) >= MinPasswordLen

\* the last login named an active user and gave the user's password
LastPasswordOk ==
    /\ LastLoginParsed
    /\ \E u \in LastUsers :
           /\ BeforeUsers[u].isActive
           /\ Argon2Verify(BeforeUsers[u].passwordHash, last.req.password)

NothingIssued ==
    /\ store = last.before
    /\ issued = last.issuedBefore
    /\ last.res.accessToken = None
    /\ last.res.cookie = None

\* C9: a login for an unknown email, for an inactive user or with a wrong
\* password gets one and the same response, InvalidCredentials, and leaves
\* the store as it was: no row, no audit event
C9_InvalidCredentialsUniform ==
    (LastLoginParsed /\ ~LastPasswordOk) =>
        /\ last.res = Response(401, "Invalid credentials")
        /\ NothingIssued

\* an inactive user gave the right password
C9_Witness ==
    /\ LastLoginParsed
    /\ \E u \in LastUsers :
           /\ ~BeforeUsers[u].isActive
           /\ Argon2Verify(BeforeUsers[u].passwordHash, last.req.password)
    /\ last.res.error = "Invalid credentials"
    /\ refreshTokens # <<>>

\* C10: for a user with twoFASecret set, a login with the right password and
\* no code fails with TwoFactorRequired, one with a code that does not verify
\* fails with InvalidTwoFactorCode, neither creates a row or signs a token,
\* and every login of such a user that succeeds carried a verifying code
C10_TwoFactorGate ==
    \A u \in LastUsers :
        (LastPasswordOk /\ BeforeUsers[u].twoFASecret # None) =>
            LET secret == The(BeforeUsers[u].twoFASecret)
                code == last.req.totpCode
            IN  /\ code = None =>
                    /\ last.res.status = 401
                    /\ last.res.error = "2FA code required"
                    /\ NothingIssued
                /\ (code # None /\ ~TotpVerify(secret, The(code), last.at)) =>
                    /\ last.res = Response(401, "Invalid 2FA code")
                    /\ NothingIssued
                /\ last.res.status = 200 =>
                    code # None /\ TotpVerify(secret, The(code), last.at)

\* the code of the first step outside the window was turned down
C10_Witness ==
    /\ LastPasswordOk
    /\ last.res.error = "Invalid 2FA code"
    /\ \E u \in LastUsers :
           last.req.totpCode = Some(CodeAt(The(BeforeUsers[u].twoFASecret), last.at,
                                           TotpWindow + 1))

\* C1: two refresh calls in flight with the same cookie never both succeed
C1_NoDoubleRotation ==
    \A s1, s2 \in Slots :
        (/\ s1 # s2
         /\ slots[s1].op = "refresh" /\ slots[s1].pc = "done"
         /\ slots[s2].op = "refresh" /\ slots[s2].pc = "done"
         /\ slots[s1].req.cookie = slots[s2].req.cookie) =>
            ~(slots[s1].res.status = 200 /\ slots[s2].res.status = 200)

\* the rows of a user that are ACTIVE now
ActiveRows(userId) ==
    {i \in DOMAIN refreshTokens :
        refreshTokens[i].userId = userId /\ Active(refreshTokens[i], now)}

\* C4: after one login and any number of refreshes, each with the newest
\* cookie, the user has exactly one ACTIVE row in every state, the states
\* between the store writes of a refresh included, for as long as the newest
\* row has not reached its expiry
C4_ExactlyOneActiveRow ==
    LET n == Len(refreshTokens)
    IN  (n > 0 /\ ~(refreshTokens[n].expiresAt < now)) =>
            Cardinality(ActiveRows(refreshTokens[n].userId)) = 1

-----------------------------------------------------------------------------
(* Logout *)

\* the last call was a logout that passed requireAuth
LastLogoutReached ==
    /\ last.op = "logout"
    /\ ~IsSome(RequireAuthReject(last.req.bearer, last.at))

\* the rows named by the cookie of the last logout
LastLogoutNamed ==
    {i \in DOMAIN BeforeTokens : Some(BeforeTokens[i].id) = LogoutTarget(last.req.cookie)}

RevokedRows(rts) == {i \in DOMAIN rts : Revoked(rts[i])}

\* C11: a logout that reaches the handler answers ok whatever its cookie, a
\* cookie that names no row or a revoked row included; afterwards the named
\* row, if there is one, is revoked, and revoking it once more leaves the set
\* of revoked rows as it is
C11_LogoutAlwaysOk ==
    LastLogoutReached =>
        /\ last.res.status = 200
        /\ \A i \in LastLogoutNamed : Revoked(refreshTokens[i])
        /\ \A i \in LastLogoutNamed :
               RevokedRows(RevokeToken(refreshTokens, refreshTokens[i].id, now))
                   = RevokedRows(refreshTokens)

-----------------------------------------------------------------------------
(* POST /api/auth/2fa/setup and POST /api/auth/2fa/verify *)

\* codes of six digits are the naturals below this
SixDigits == 1000000

\* prisma.user.findUnique({where: {id}})
FindUserById(us, id) == {us[i] : i \in {j \in DOMAIN us : us[j].id = id}}

\* prisma.user.update({where: {id}, data: {twoFASecret: secret}})
SetTwoFASecret(us, id, secret) ==
    [i \in DOMAIN us |-> IF us[i].id = id THEN [us[i] EXCEPT !.twoFASecret = Some(secret)]
                         ELSE us[i]]

\* a request to the two handlers: the bearer token and the body
TwoFactorReq(bearer, secret, code) ==
    [email |-> "", password |-> <<>>, totpCode |-> code, cookie |-> None,
     bearer |-> bearer, secret |-> secret]

\* res.json({secret: secret.base32, qrCode})
SecretResponse(secret) ==
    [status |-> 200, error |-> "", requires2FA |-> FALSE, accessToken |-> None,
     cookie |-> None, user |-> None, secret |-> Some(secret)]

\* the secrets speakeasy.generateSecret may draw
GeneratedSecrets == {7, 8}

\* a check that never finds 2FA enabled
TwoFactorNeverEnabled(user) == FALSE

\* if (user.twoFASecret)
TwoFactorEnabled(user) == IsSome(user.twoFASecret)

\* the handler after requireAuth let claims through: the early response, if any
Setup2FAReject(user) ==
    IF ~IsSome(user) THEN Some(Response(404, "User not found"))
    ELSE IF TwoFactorEnabled(The(user)) THEN Some(Response(400, "2FA already enabled"))
    ELSE None

Setup2FA(req, secret) ==
    LET authRej == RequireAuthReject(req.bearer, now)
        claims == The(JwtVerify(The(req.bearer), JWT_ACCESS_SECRET, now))
        rej == Setup2FAReject(FindUserById(users, claims.sub))
    IN  /\ IF IsSome(authRej)
           THEN last' = Done("setup2fa", req, The(authRej), <<>>)
           ELSE IF IsSome(rej)
           THEN last' = Done("setup2fa", req, The(rej), <<"user.findUnique">>)
           ELSE last' = Done("setup2fa", req, SecretResponse(secret), <<"user.findUnique">>)
        /\ UNCHANGED store

\* setup2FASchema.parse(req.body) does not throw: totpCode is a string of length 6
Setup2FASchemaOk(req) == IsSome(req.totpCode) /\ The(req.totpCode) < SixDigits

\* a check that accepts any code of six digits
Verify2FARejectUnverified(req, t) ==
    IF ~Setup2FASchemaOk(req) THEN Some(Response(500, "2FA verification failed"))
    ELSE IF ~IsSome(req.secret) THEN Some(Response(400, "Secret required"))
    ELSE None

\* the checks of the handler before it writes: the early response, if any
Verify2FAReject(req, t) ==
    IF ~Setup2FASchemaOk(req) THEN Some(Response(500, "2FA verification failed"))
    ELSE IF ~IsSome(req.secret) THEN Some(Response(400, "Secret required"))
    ELSE IF ~TotpVerify(The(req.secret), The(req.totpCode), t)
         THEN Some(Response(400, "Invalid 2FA code"))
    ELSE None

Verify2FA(req) ==
    LET authRej == RequireAuthReject(req.bearer, now)
        claims == The(JwtVerify(The(req.bearer), JWT_ACCESS_SECRET, now))
        rej == Verify2FAReject(req, now)
    IN  IF IsSome(authRej)
        THEN /\ last' = Done("verify2fa", req, The(authRej), <<>>)
             /\ UNCHANGED store
        ELSE IF IsSome(rej)
        THEN /\ last' = Done("verify2fa", req, The(rej), <<>>)
             /\ UNCHANGED store
        ELSE IF ~IsSome(FindUserById(users, claims.sub))
        THEN \* prisma.user.update throws: no row to update
             /\ last' = Done("verify2fa", req, Response(500, "2FA verification failed"),
                             <<"user.update">>)
             /\ UNCHANGED store
        ELSE /\ users' = SetTwoFASecret(users, claims.sub, The(req.secret))
             /\ last' = Done("verify2fa", req, Response(200, ""), <<"user.update">>)
             /\ UNCHANGED <<refreshTokens, auditLog>>

\* the access token with a signature made under another key
Forged(tok) == [tok EXCEPT !.sig = <<"attacker-key", tok.claims>>]

\* no Authorization header, the newest token the server signed, or that
\* token forged
BearerInputs ==
    {None} \cup {Some(tok) : tok \in NewestIssued} \cup {Some(Forged(tok)) : tok \in NewestIssued}

Setup2FAInputs == {TwoFactorReq(b, None, None) : b \in BearerInputs}

\* from the holder of the newest token: the secret of the authenticator with
\* its current code, with its first code outside the window, with a code of
\* seven digits and with no code; another secret with the authenticator's
\* code; no secret.  From the others: the secret with its current code
Verify2FAInputs(t) ==
    {TwoFactorReq(b, Some(7), Some(CodeAt(7, t, 0))) : b \in BearerInputs}
    \cup {TwoFactorReq(Some(tok), Some(7), c) :
            tok \in NewestIssued,
            c \in {None, Some(CodeAt(7, t, TotpWindow + 1)), Some(SixDigits)}}
    \cup {TwoFactorReq(Some(tok), s, Some(CodeAt(7, t, 0))) :
            tok \in NewestIssued, s \in {None, Some(8)}}

\* the clock may run up to the expiry of an access token
AccessTickSteps == {AccessTtl}

DoSetup2FA ==
    \E req \in Setup2FAInputs : \E secret \in GeneratedSecrets :
        Setup2FA(req, secret) /\ UNCHANGED <<documents, now, ticks, issued, consumed, slots>>

DoVerify2FA ==
    \E req \in Verify2FAInputs(now) :
        Verify2FA(req) /\ UNCHANGED <<documents, now, ticks, issued, consumed, slots>>

DoAccessTick == \E d \in AccessTickSteps : Tick(d)

\* accounts: logins, logouts, 2FA enrolment, the clock of the access tokens
AccountNext == DoSessionLogin \/ DoLogout \/ DoSetup2FA \/ DoVerify2FA \/ DoAccessTick

AccountSpec == Init /\ [][AccountNext]_vars

\* the last call came with a bearer token that requireAuth let through
LastAuthenticated ==
    /\ IsSome(last.req.bearer)
    /\ IsSome(JwtVerify(The(last.req.bearer), JWT_ACCESS_SECRET, last.at))

LastClaims == The(last.req.bearer).claims

\* the users the claims of the last call name
LastCallers == {u \in DOMAIN BeforeUsers : BeforeUsers[u].id = LastClaims.sub}

\* C12: Setup2FA answers AlreadyEnabled to a caller who has twoFASecret set,
\* and whatever it answers it leaves the store as it was: the secret it
\* generates is only returned
C12_SetupPersistsNothing ==
    last.op = "setup2fa" =>
        /\ store = last.before
        /\ LastAuthenticated =>
               \A u \in LastCallers :
                   IF BeforeUsers[u].twoFASecret # None
                   THEN last.res = Response(400, "2FA already enabled")
                   ELSE /\ last.res.status = 200
                        /\ last.res.secret # None
                        /\ users[u].twoFASecret = None

\* a user who enrolled through Verify2FA asked for a new secret
C12_Witness ==
    /\ last.op = "setup2fa"
    /\ LastAuthenticated
    /\ last.res.error = "2FA already enabled"
    /\ \E u \in LastCallers : SeedUsers[u].twoFASecret = None

\* the last call was a Verify2FA that passed requireAuth with a body the
\* schema accepts and a candidate secret
LastVerifyParsed ==
    /\ last.op = "verify2fa"
    /\ LastAuthenticated
    /\ IsSome(last.req.totpCode) /\ The(last.req.totpCode) < SixDigits
    /\ IsSome(last.req.secret)

\* C13: Verify2FA stores the candidate secret on the caller's record exactly
\* when the code verifies against the candidate; when the code does not
\* verify it answers InvalidTwoFactorCode; and whenever it fails, every user
\* record is as before
C13_VerifyPersistsOnlyOnProof ==
    /\ (last.op = "verify2fa" /\ last.res.status # 200) => store = last.before
    /\ LastVerifyParsed =>
           IF TotpVerify(The(last.req.secret), The(last.req.totpCode), last.at)
           THEN /\ last.res.status = 200
                /\ \A u \in DOMAIN BeforeUsers :
                       IF u \in LastCallers
                       THEN users[u] = [BeforeUsers[u] EXCEPT !.twoFASecret = last.req.secret]
                       ELSE users[u] = BeforeUsers[u]
                /\ LastCallers # {}
           ELSE /\ last.res = Response(400, "Invalid 2FA code")
                /\ users = BeforeUsers

\* the first code outside the window of the candidate secret was turned down
C13_Witness ==
    /\ LastVerifyParsed
    /\ last.req.totpCode = Some(CodeAt(The(last.req.secret), last.at, TotpWindow + 1))
    /\ last.res.error = "Invalid 2FA code"
    /\ users = BeforeUsers

-----------------------------------------------------------------------------
(* requireAuth *)

\* the responses of requireAuth
Unauthenticated ==
    {Response(401, "Missing token"), Response(401, "Invalid/expired token")}

\* the last call went through requireAuth
LastGuarded == last.op \in {"logout", "setup2fa", "verify2fa"}

\* the refresh-token rows the bearer token of the last call names
LastRidRows ==
    {i \in DOMAIN BeforeTokens : BeforeTokens[i].id = LastClaims.rid}

\* C14: requireAuth lets a request through exactly when its bearer token
\* carries the server's signature and its exp is not past, whatever the
\* store holds: an expired token is turned down, and a token is still let
\* through after the refresh-token row named by its rid has been revoked
C14_AuthenticateIsStateless ==
    /\ LastGuarded =>
           (last.res \notin Unauthenticated <=>
               /\ IsSome(last.req.bearer)
               /\ The(last.req.bearer).sig = <<JWT_ACCESS_SECRET, LastClaims>>
               /\ last.at < LastClaims.exp)
    /\ \A tok \in issued :
           (RequireAuthReject(Some(tok), now) = None) <=> (now < tok.claims.exp)

\* a token was let through although every row of its user is revoked
C14_Witness ==
    /\ LastGuarded
    /\ IsSome(last.req.bearer)
    /\ last.res \notin Unauthenticated
    /\ LastRidRows # {}
    /\ \A i \in DOMAIN BeforeTokens :
           BeforeTokens[i].userId = LastClaims.sub => Revoked(BeforeTokens[i])

-----------------------------------------------------------------------------
(* requirePerm and requireMerchantAccess *)

\* the role values of JwtClaims
Roles == {"ADMIN", "MERCHANT_ADMIN", "MERCHANT_MANAGER", "MERCHANT_USER", "READ_ONLY"}

\* Array.prototype.includes
Includes(arr, x) == \E i \in DOMAIN arr : arr[i] = x

\* a guard that asks for one of the permissions only
RequirePermRejectSome(user, needed) ==
    IF ~IsSome(user) THEN Some(Response(401, "Authentication required"))
    ELSE IF The(user).role = "ADMIN" THEN None
    ELSE IF ~(\E i \in DOMAIN needed : Includes(The(user).perms, needed[i]))
         THEN Some(Response(403, "Insufficient permissions"))
    ELSE None

\* requirePerm(...needed): the response it answers with, or None when it
\* calls next()
RequirePermReject(user, needed) ==
    IF ~IsSome(user) THEN Some(Response(401, "Authentication required"))
    ELSE IF The(user).role = "ADMIN" THEN None
    ELSE IF ~(\A i \in DOMAIN needed : Includes(The(user).perms, needed[i]))
         THEN Some(Response(403, "Insufficient permissions"))
    ELSE None

\* JavaScript truthiness of an optional id: undefined and '' are falsy
TruthyId(o) == IsSome(o) /\ The(o) # ""

\* a || b
JsOr(a, b) == IF TruthyId(a) THEN a ELSE b

\* req.params.merchantId || req.body.merchantId || req.query.merchantId
MerchantIdOf(req) == JsOr(JsOr(req.params, req.body), req.query)

\* a guard that lets every role with "ADMIN" in its name through
RequireMerchantAccessRejectAnyAdmin(user, req) ==
    IF user.role \in {"ADMIN", "MERCHANT_ADMIN"} THEN None
    ELSE IF user.mid # MerchantIdOf(req)
         THEN Some(Response(403, "Access denied to this merchant"))
    ELSE None

\* requireMerchantAccess: the response it answers with, or None when it
\* calls next()
RequireMerchantAccessReject(user, req) ==
    IF user.role = "ADMIN" THEN None
    ELSE IF user.mid # MerchantIdOf(req)
         THEN Some(Response(403, "Access denied to this merchant"))
    ELSE None

\* the claims requireAuth attaches to a request
GuardClaims(role, perms, mid) ==
    [sub |-> "u2", rid |-> Cuid(1), role |-> role, perms |-> perms, mid |-> mid,
     iat |-> 0, exp |-> AccessTtl]

\* the record of a call of a guard or of the permission table
GuardCall(op, args, res) == [op |-> op, args |-> args, res |-> res]

\* role values: the five roles and strings that are none of them
RoleInputs == Roles \cup {"GUEST", "", "admin", "constructor", "toString", "__proto__"}

\* permission lists a token may carry: the table's, none, and one the table
\* gives to no role
PermsInputs ==
    {computePermissions(r) : r \in Roles} \cup {<<>>, <<"audit:read">>}

\* permissions a route may ask for: none, each single one, and pairs
NeededInputs ==
    {<<>>, <<"doc:view", "doc:delete">>, <<"merchant:read", "settings:write">>}
    \cup {<<AllPermissions[i]>> : i \in DOMAIN AllPermissions}

MidInputs == {None, Some("m1"), Some("m2")}

\* merchantId in params, body and query
TargetInputs ==
    {[params |-> p, body |-> b, query |-> q] :
        p \in {None, Some("m1")}, b \in {None, Some(""), Some("m2")},
        q \in {None, Some(""), Some("m1")}}

DoRequirePerm ==
    /\ \E role \in Roles \cup {"GUEST"} : \E perms \in PermsInputs : \E needed \in NeededInputs :
           LET user == Some(GuardClaims(role, perms, None))
           IN  last' = GuardCall("requirePerm", [user |-> user, needed |-> needed],
                                 RequirePermReject(user, needed))
    /\ UNCHANGED <<store, documents, now, ticks, issued, consumed, slots>>

DoRequireMerchantAccess ==
    /\ \E role \in Roles : \E mid \in MidInputs : \E req \in TargetInputs :
           LET user == GuardClaims(role, computePermissions(role), mid)
           IN  last' = GuardCall("requireMerchantAccess", [user |-> user, req |-> req],
                                 RequireMerchantAccessReject(user, req))
    /\ UNCHANGED <<store, documents, now, ticks, issued, consumed, slots>>

DoComputePermissions ==
    /\ \E role \in RoleInputs :
           last' = GuardCall("computePermissions", [role |-> role], computePermissions(role))
    /\ UNCHANGED <<store, documents, now, ticks, issued, consumed, slots>>

\* a route behind requireAuth and requirePerm(...needed): the response of the
\* guards, or None when the handler runs
RouteReject(bearer, needed, t) ==
    LET authRej == RequireAuthReject(bearer, t)
    IN  IF IsSome(authRej) THEN authRej
        ELSE RequirePermReject(JwtVerify(The(bearer), JWT_ACCESS_SECRET, t), needed)

\* router.post('/') and router.get('/') of the merchants router
MerchantRoutes ==
    {[name |-> "POST /api/merchants", needed |-> <<"merchant:write">>],
     [name |-> "GET /api/merchants", needed |-> <<"merchant:read">>]}

\* a user of the given role as login reads it; only ADMIN has no merchant
RoleUser(role) ==
    [SeedUsers.u2 EXCEPT !.role = role,
                         !.merchantId = IF role = "ADMIN" THEN None ELSE Some("m1")]

DoMerchantRoute ==
    /\ \E route \in MerchantRoutes : \E role \in Roles :
           LET bearer == Some(MintAccessToken(RoleUser(role), Cuid(1), now))
           IN  last' = GuardCall(route.name, [role |-> role, bearer |-> bearer],
                                 RouteReject(bearer, route.needed, now))
    /\ UNCHANGED <<store, documents, now, ticks, issued, consumed, slots>>

\* the guards and the permission table, applied to every input
GuardNext ==
    DoRequirePerm \/ DoRequireMerchantAccess \/ DoComputePermissions \/ DoMerchantRoute

GuardSpec == Init /\ [][GuardNext]_vars

\* the set of the members of an array
Members(arr) == {arr[i] : i \in DOMAIN arr}

\* C15: requirePermissions lets ADMIN through, lets any other role through
\* exactly when every required permission is among the claims' permissions,
\* and otherwise answers Forbidden
C15_RequirePermissions ==
    last.op = "requirePerm" =>
        LET user == The(last.args.user)
            ok == \/ user.role = "ADMIN"
                  \/ Members(last.args.needed) \subseteq Members(user.perms)
        IN  IF ok THEN last.res = None
            ELSE last.res = Some(Response(403, "Insufficient permissions"))

\* a caller who holds one of two required permissions was turned down
C15_Witness ==
    /\ last.op = "requirePerm"
    /\ The(last.args.user).role = "MERCHANT_USER"
    /\ last.args.needed = <<"doc:view", "doc:delete">>
    /\ Includes(The(last.args.user).perms, "doc:view")
    /\ last.res = Some(Response(403, "Insufficient permissions"))

\* C16: requireTenantAccess lets ADMIN through, with or without a merchant
\* id, lets any other role through exactly when the claims' mid equals the
\* merchant id the request names, and answers Forbidden to a caller of
\* merchant T1 who asks for another merchant T2
C16_RequireTenantAccess ==
    last.op = "requireMerchantAccess" =>
        LET user == last.args.user
            target == MerchantIdOf(last.args.req)
        IN  /\ user.role = "ADMIN" => last.res = None
            /\ user.role # "ADMIN" =>
                   IF user.mid = target THEN last.res = None
                   ELSE last.res = Some(Response(403, "Access denied to this merchant"))
            /\ (user.role # "ADMIN" /\ user.mid # None /\ target # None
                    /\ The(user.mid) # The(target)) => last.res # None

\* a merchant admin of m1 asked for m2 and was turned down
C16_Witness ==
    /\ last.op = "requireMerchantAccess"
    /\ last.args.user.role = "MERCHANT_ADMIN"
    /\ last.args.user.mid = Some("m1")
    /\ MerchantIdOf(last.args.req) = Some("m2")
    /\ last.res = Some(Response(403, "Access denied to this merchant"))

\* C17: permissionsFor is total: ADMIN gets the ten permissions, each other
\* role a subset of them, and every value that is none of the five roles the
\* empty list
C17_PermissionsForTotal ==
    last.op = "computePermissions" =>
        LET role == last.args.role
        IN  /\ role = "ADMIN" =>
                   Members(last.res) = Members(AllPermissions) /\ Len(last.res) = 10
            /\ role \in Roles => Members(last.res) \subseteq Members(AllPermissions)
            /\ role \notin Roles => last.res = <<>>

\* C20: the guards of POST /api/merchants and GET /api/merchants turn down
\* every caller whose role is not ADMIN
C20_MerchantRoutesAdminOnly ==
    (last.op \in {"POST /api/merchants", "GET /api/merchants"}
        /\ last.args.role # "ADMIN") => last.res # None

-----------------------------------------------------------------------------
(* Store calls that throw.  Every prisma call is awaited inside the try of  *)
(* its handler; when one rejects, the catch answers 500 and the calls that  *)
(* were made before it stay as they are.                                    *)

\* the store writes of a login that gets as far as issuing tokens
LoginWrites == {"refreshToken.create", "auditLog.create"}

\* the store writes of a refresh that rotates
RefreshWrites == {"refreshToken.update", "refreshToken.create"}

\* a login whose checks pass and whose store call `failed` throws
LoginFault(req, failed) ==
    LET user == FindUserByEmail(users, req.email)
        rts == CreateRefreshToken(refreshTokens, The(user).id, now)
        n == Len(rts)
    IN  /\ ~IsSome(LoginReject(user, req, now))
        /\ Len(refreshTokens) < MaxTokens
        /\ IF failed = "refreshToken.create"
           THEN /\ last' = Done("login", req, Response(500, "Login failed"),
                                <<"user.findUnique", "refreshToken.create">>)
                /\ UNCHANGED refreshTokens
           ELSE \* the row is stored and res.cookie has run when auditLog.create throws
                /\ refreshTokens' = rts
                /\ last' = Done("login", req,
                                [Response(500, "Login failed") EXCEPT
                                    !.cookie = Some(rts[n].id \o <<Dot>> \o RandomBytes(n))],
                                <<"user.findUnique", "refreshToken.create",
                                  "auditLog.create">>)
        /\ UNCHANGED <<users, auditLog, issued>>

\* a refresh that gets as far as rotating and whose store call `failed` throws
RefreshFault(req, failed) ==
    LET cookie == req.cookie
    IN  /\ RefreshDecision(refreshTokens, cookie, now) = "rotate"
        /\ IF failed = "refreshToken.update"
           THEN /\ last' = Done("refresh", req, Response(500, "Token refresh failed"),
                                <<"refreshToken.findUnique", "refreshToken.update">>)
                /\ UNCHANGED refreshTokens
           ELSE \* the old row is revoked when refreshToken.create throws
                /\ refreshTokens' =
                       RevokeToken(refreshTokens, The(CookieTokenId(cookie)), now)
                /\ last' = Done("refresh", req, Response(500, "Token refresh failed"),
                                <<"refreshToken.findUnique", "refreshToken.update",
                                  "refreshToken.create">>)
        /\ UNCHANGED <<users, auditLog, issued, consumed>>

DoLoginFault ==
    \E req \in SessionLogins(now) : \E failed \in LoginWrites :
        LoginFault(req, failed) /\ UNCHANGED <<documents, now, ticks, consumed, slots>>

DoRefreshFault ==
    \E req \in RefreshInputs : \E failed \in RefreshWrites :
        RefreshFault(req, failed) /\ UNCHANGED <<documents, now, ticks, slots>>

\* sessions over a store whose writes may throw
FaultNext == DoSessionLogin \/ DoRefresh \/ DoLoginFault \/ DoRefreshFault \/ DoTick

FaultSpec == Init /\ [][FaultNext]_vars

\* C18: a login that ends in an error, and a refresh that ends in an error
\* other than ReuseDetected, leave the refresh-token rows and the user
\* records as they were, also when a store write of the handler throws
C18_NoPartialPersist ==
    (/\ last.op \in {"login", "refresh"}
     /\ last.res.status # 200
     /\ last.res.error # "Token reuse detected") =>
        /\ refreshTokens = BeforeTokens
        /\ users = BeforeUsers

-----------------------------------------------------------------------------
(* POST /api/auth/register-admin, one store call at a time *)

\* z.string().min(12) of registerSchema.password
MinAdminPasswordLen == 12
\* z.string().min(2) of registerSchema.name
MinNameLen == 2

AdminPassword == <<1, 2, 3, 4, 5, 6, 7, 8, 9, 10, 11, 12>>

AdminName == <<1, 2>>

RegisterReq(e, p, n) == [email |-> e, password |-> p, name |-> n]

\* registerSchema.parse(req.body) does not throw
RegisterSchemaOk(req) ==
    /\ req.email \in EmailShaped
    /\ Len(req.password) >= MinAdminPasswordLen
    /\ Len(req.name) >= MinNameLen

\* prisma.user.findFirst({where: {role: 'ADMIN'}})
FindAdmins(us) == {us[i] : i \in {j \in DOMAIN us : us[j].role = "ADMIN"}}

\* the ids the store gives the users it creates
NewUserIds == <<"a1", "a2">>

\* prisma.user.create of an ADMIN; `active` is the default of the column
CreateAdmin(us, req, active) ==
    LET id == NewUserIds[Cardinality(DOMAIN us \cap Members(NewUserIds)) + 1]
    IN  us @@ (id :> [id |-> id, email |-> req.email,
                      passwordHash |-> Argon2Hash(req.password, 9), role |-> "ADMIN",
                      merchantId |-> None, isActive |-> active, twoFASecret |-> None])

\* the request arrives; the body is parsed; prisma.user.findFirst
RegisterStart(s, req) ==
    /\ Free(s)
    /\ IF ~RegisterSchemaOk(req)
       THEN slots' = [slots EXCEPT ![s] =
                Finished("register", req, Response(500, "Failed to create admin user"))]
       ELSE IF IsSome(FindAdmins(users))
       THEN slots' = [slots EXCEPT ![s] =
                Finished("register", req, Response(400, "Admin user already exists"))]
       ELSE slots' = [slots EXCEPT ![s] =
                [IdleSlot EXCEPT !.op = "register", !.pc = "createUser", !.req = req]]
    /\ UNCHANGED <<store, documents, now, ticks, issued, consumed, last>>

\* argon2.hash; prisma.user.create, which throws when the email is taken
RegisterCreate(s) ==
    /\ slots[s].op = "register" /\ slots[s].pc = "createUser"
    /\ IF IsSome(FindUserByEmail(users, slots[s].req.email))
       THEN /\ slots' = [slots EXCEPT ![s] =
                   Finished("register", slots[s].req,
                            Response(500, "Failed to create admin user"))]
            /\ UNCHANGED users
       ELSE /\ \E active \in BOOLEAN : users' = CreateAdmin(users, slots[s].req, active)
            /\ slots' = [slots EXCEPT ![s] =
                   Finished("register", slots[s].req, Response(201, ""))]
    /\ UNCHANGED <<refreshTokens, auditLog, documents, now, ticks, issued, consumed, last>>

\* bodies with a free and a taken address, a password of 12 and one of 8
\* characters, and one that is no address
RegisterInputs ==
    {RegisterReq(e, p, AdminName) :
        e \in {"admin@dms.com", "nobody@dms.com", "admin@acmecorp.com", "not-an-email"},
        p \in {AdminPassword, CorrectPassword}}

\* the store before the first admin: merchants have registered and invited
\* users, nobody has the role ADMIN
NoAdminUsers == [u \in {"u2", "u3", "u4"} |-> SeedUsers[u]]

RegisterInit ==
    /\ users = NoAdminUsers
    /\ refreshTokens = <<>>
    /\ auditLog = <<>>
    /\ documents = SeedDocuments
    /\ now = 0
    /\ ticks = 0
    /\ issued = {}
    /\ consumed = {}
    /\ last = NoCall
    /\ slots = [s \in Slots |-> IdleSlot]

StartRegister == \E s \in Slots : \E req \in RegisterInputs : RegisterStart(s, req)

StepRegisterCreate == \E s \in Slots : RegisterCreate(s)

RegisterNext == StartRegister \/ StepRegisterCreate

RegisterSpec == RegisterInit /\ [][RegisterNext]_vars

\* C19: however register-admin calls interleave, the store never holds more
\* than one ADMIN user, and a call that finds an ADMIN creates no user
C19_AtMostOneAdmin == Cardinality(FindAdmins(users)) <= 1

-----------------------------------------------------------------------------
(* Rotation *)

\* the last call was a refresh that succeeded
LastRotated == last.op = "refresh" /\ last.res.status = 200

\* the secret in the cookie the last call set
LastNewSecret == Split(The(last.res.cookie))[2]

\* C22: a refresh that succeeds leaves the presented row revoked and every
\* other row as it was, adds exactly one row, unrevoked and owned by the same
\* user, whose secret verifies against the new row only, and returns an
\* access token whose rid is the new row's id and whose perms are those of
\* the owner's stored role
C22_RefreshRotates ==
    LastRotated =>
        LET n == Len(refreshTokens)
        IN  /\ n = Len(BeforeTokens) + 1
            /\ Cardinality(LastNamed) = 1
            /\ \A i \in DOMAIN BeforeTokens :
                   IF i \in LastNamed
                   THEN /\ ~Revoked(BeforeTokens[i])
                        /\ Revoked(refreshTokens[i])
                        /\ refreshTokens[n].userId = BeforeTokens[i].userId
                        /\ refreshTokens[n].id # BeforeTokens[i].id
                   ELSE refreshTokens[i] = BeforeTokens[i]
            /\ ~Revoked(refreshTokens[n])
            /\ Split(The(last.res.cookie))[1] = refreshTokens[n].id
            /\ \A j \in DOMAIN refreshTokens :
                   Argon2Verify(refreshTokens[j].tokenHash, LastNewSecret) <=> j = n
            /\ Cardinality(last.res.accessToken) = 1
            /\ \A tok \in last.res.accessToken :
                   /\ tok.claims.rid = refreshTokens[n].id
                   /\ tok.claims.sub = refreshTokens[n].userId
                   /\ tok.claims.perms = computePermissions(users[tok.claims.sub].role)
                   /\ IsSome(JwtVerify(tok, JWT_ACCESS_SECRET, last.at))

\* the session of the merchant admin was rotated
C22_Witness ==
    /\ LastRotated
    /\ \E i \in LastNamed : users[BeforeTokens[i].userId].role = "MERCHANT_ADMIN"

-----------------------------------------------------------------------------
(* PATCH /api/users/:userId and POST /api/users/accept-invite *)

\* the updates of users a behaviour holds
MaxUpdates == 2

\* z.string().min(12) of acceptInviteSchema.password
MinInvitePasswordLen == 12

\* the roles updateUserSchema accepts
UpdatableRoles == {"MERCHANT_ADMIN", "MERCHANT_MANAGER", "MERCHANT_USER", "READ_ONLY"}

\* a request to PATCH /:userId: the bearer token, the parameter and the body
UpdateUserReq(bearer, userId, role, isActive) ==
    [bearer |-> bearer, cookie |-> None, userId |-> userId, role |-> role,
     isActive |-> isActive]

\* updateUserSchema.parse(req.body) does not throw
UpdateUserSchemaOk(req) == \A r \in req.role : r \in UpdatableRoles

\* actor.mid !== targetUser.merchantId: mid is a string or undefined,
\* merchantId a string or null, and undefined is not null
MidDiffers(mid, merchantId) == ~(IsSome(mid) /\ IsSome(merchantId) /\ mid = merchantId)

\* the checks of the handler before it writes: the early response, if any
UpdateUserReject(actor, target, req) ==
    IF ~UpdateUserSchemaOk(req) THEN Some(Response(500, "Failed to update user"))
    ELSE IF ~IsSome(target) THEN Some(Response(404, "User not found"))
    ELSE IF actor.role # "ADMIN" /\ MidDiffers(actor.mid, The(target).merchantId)
         THEN Some(Response(403, "Cannot update this user"))
    ELSE None

\* prisma.user.update with the fields of the body that are defined
PatchUser(us, id, req) ==
    [i \in DOMAIN us |->
        IF us[i].id # id THEN us[i]
        ELSE [us[i] EXCEPT
                 !.role = IF IsSome(req.role) THEN The(req.role) ELSE @,
                 !.isActive = IF IsSome(req.isActive) THEN The(req.isActive) ELSE @]]

\* prisma.auditLog.create of USER.UPDATE, metadata.changes being the keys of the body
CreateUpdateAudit(log, actorId, targetId, req) ==
    Append(log, [actorId |-> actorId, action |-> "USER.UPDATE", targetId |-> targetId,
                 changes |-> {k \in {"role", "isActive"} : IsSome(req[k])}])

UpdateUser(req) ==
    LET guardRej == RouteReject(req.bearer, <<"user:manage">>, now)
        actor == The(JwtVerify(The(req.bearer), JWT_ACCESS_SECRET, now))
        target == FindUserById(users, req.userId)
        rej == UpdateUserReject(actor, target, req)
    IN  IF IsSome(guardRej)
        THEN /\ last' = Done("updateUser", req, The(guardRej), <<>>)
             /\ UNCHANGED store
        ELSE IF IsSome(rej)
        THEN /\ last' = Done("updateUser", req, The(rej),
                             IF UpdateUserSchemaOk(req) THEN <<"user.findUnique">> ELSE <<>>)
             /\ UNCHANGED store
        ELSE /\ users' = PatchUser(users, req.userId, req)
             /\ auditLog' = CreateUpdateAudit(auditLog, actor.sub, req.userId, req)
             /\ last' = Done("updateUser", req, Response(200, ""),
                             <<"user.findUnique", "user.update", "auditLog.create">>)
             /\ UNCHANGED refreshTokens

\* a request to POST /accept-invite: the body
AcceptInviteReq(token, password) ==
    [bearer |-> None, cookie |-> None, email |-> token, password |-> password]

\* acceptInviteSchema.parse(req.body) does not throw
AcceptInviteSchemaOk(req) == Len(req.password) >= MinInvitePasswordLen

\* the checks of the handler before it writes: the early response, if any
AcceptInviteReject(user, req) ==
    IF ~AcceptInviteSchemaOk(req) THEN Some(Response(500, "Failed to accept invitation"))
    ELSE IF ~IsSome(user) \/ The(user).isActive
         THEN Some(Response(400, "Invalid or expired invitation"))
    ELSE None

\* prisma.user.update({where: {id}, data: {passwordHash, isActive: true}})
ActivateUser(us, id, password) ==
    [i \in DOMAIN us |->
        IF us[i].id # id THEN us[i]
        ELSE [us[i] EXCEPT !.passwordHash = Argon2Hash(password, 10), !.isActive = TRUE]]

AcceptInvite(req) ==
    LET user == FindUserByEmail(users, req.email)
        rej == AcceptInviteReject(user, req)
    IN  IF IsSome(rej)
        THEN /\ last' = Done("acceptInvite", req, The(rej),
                             IF AcceptInviteSchemaOk(req) THEN <<"user.findUnique">> ELSE <<>>)
             /\ UNCHANGED store
        ELSE /\ users' = ActivateUser(users, The(user).id, req.password)
             /\ last' = Done("acceptInvite", req, Response(200, ""),
                             <<"user.findUnique", "user.update">>)
             /\ UNCHANGED <<refreshTokens, auditLog>>

\* the cookies the server has set so far, and each with the secret of another
RowCookies ==
    {Some(IssuedCookie(i)) : i \in DOMAIN refreshTokens}
    \cup {Some(TamperedCookie(i)) : i \in DOMAIN refreshTokens}

RowRefreshInputs == {[EmptyReq EXCEPT !.cookie = c] : c \in RowCookies}

\* a logout comes with the newest access token and the cookie of any row
RowLogoutInputs ==
    {[EmptyReq EXCEPT !.bearer = Some(tok), !.cookie = Some(IssuedCookie(i))] :
        tok \in NewestIssued, i \in DOMAIN refreshTokens}

\* from the holder of the newest token: deactivation and reactivation of two
\* users of one merchant, deactivation of the platform administrator and of
\* an unknown id, an empty body and a role the schema refuses; from a caller
\* without a token: a deactivation
UpdateUserInputs ==
    {UpdateUserReq(Some(tok), id, None, Some(a)) :
        tok \in NewestIssued, id \in {"u2", "u3"}, a \in BOOLEAN}
    \cup {UpdateUserReq(Some(tok), id, None, Some(FALSE)) :
        tok \in NewestIssued, id \in {"u1", "u9"}}
    \cup {UpdateUserReq(Some(tok), "u2", r, None) :
        tok \in NewestIssued, r \in {None, Some("ADMIN")}}
    \cup {UpdateUserReq(None, "u2", None, Some(FALSE))}

\* the email of the invited user, of a registered user and of nobody, with a
\* password of twelve characters; the invited user with a short password
AcceptInviteInputs ==
    {AcceptInviteReq(e, AdminPassword) :
        e \in {"invited@acmecorp.com", "admin@acmecorp.com", "nobody@acmecorp.com"}}
    \cup {AcceptInviteReq("invited@acmecorp.com", ShortPassword)}

DoRowRefresh == \E req \in RowRefreshInputs : Refresh(req) /\ UNCHANGED <<documents, now, ticks, slots>>

DoRowLogout ==
    \E req \in RowLogoutInputs :
        Logout(req) /\ UNCHANGED <<documents, now, ticks, issued, consumed, slots>>

\* the updates recorded in the audit log
Updates == {i \in DOMAIN auditLog : auditLog[i].action = "USER.UPDATE"}

DoUpdateUser ==
    \E req \in UpdateUserInputs :
        Cardinality(Updates) < MaxUpdates /\ UpdateUser(req) /\ UNCHANGED <<documents, now, ticks, issued, consumed, slots>>

DoAcceptInvite ==
    \E req \in AcceptInviteInputs :
        AcceptInvite(req) /\ UNCHANGED <<documents, now, ticks, issued, consumed, slots>>

\* user management next to the sessions of the users it manages
UsersNext == DoSessionLogin \/ DoRowRefresh \/ DoUpdateUser \/ DoAcceptInvite

UsersSpec == Init /\ [][UsersNext]_vars

\* C25: while a user is deactivated, no login as that user succeeds and no
\* refresh of one of that user's rows succeeds
C25_DeactivatedLockedOut ==
    /\ (last.op = "login" /\ last.res.status = 200) =>
           \A u \in LastUsers : BeforeUsers[u].isActive
    /\ (last.op = "refresh" /\ last.res.status = 200) =>
           \A i \in LastNamed : BeforeUsers[BeforeTokens[i].userId].isActive

\* C30: an invitation is accepted only for an account that never accepted
\* one: the password of an account is set by accept-invite at most once
C30_AcceptInviteOnce ==
    (last.op = "acceptInvite" /\ last.res.status = 200) =>
        \A u \in LastUsers : BeforeUsers[u].passwordHash = SeedUsers[u].passwordHash

-----------------------------------------------------------------------------
(* Sessions of two users: login, refresh and logout with the cookie of any row *)

SessionNext == DoSessionLogin \/ DoRowRefresh \/ DoRowLogout \/ DoTick

SessionSpec == Init /\ [][SessionNext]_vars

\* the last call was a refresh that set a new cookie
LastRefreshed == last.op = "refresh" /\ last.res.status = 200

\* C23: a row that is revoked stays revoked through every login, refresh,
\* logout and reuse detection, and no refresh that names a revoked row succeeds
C23_RevokedIsTerminal ==
    /\ \A i \in DOMAIN BeforeTokens :
           Revoked(BeforeTokens[i]) =>
               /\ i \in DOMAIN refreshTokens
               /\ refreshTokens[i].id = BeforeTokens[i].id
               /\ Revoked(refreshTokens[i])
    /\ LastRefreshed => \A i \in LastNamed : ~Revoked(BeforeTokens[i])

\* a logout and a refresh have each met a row that was already revoked
C23_Witness ==
    /\ last.op \in {"logout", "refresh"}
    /\ last.res.status \in {200, 401}
    /\ \E i \in LastNamed : Revoked(BeforeTokens[i]) /\ Revoked(refreshTokens[i])
    /\ Cardinality(RevokedRows(refreshTokens)) = MaxTokens

\* C26: a logout changes no row but rows of the caller, the user the access
\* token names
C26_LogoutOwnRowsOnly ==
    LastLogoutReached =>
        \A i \in DOMAIN BeforeTokens :
            refreshTokens[i] # BeforeTokens[i] => BeforeTokens[i].userId = LastClaims.sub

-----------------------------------------------------------------------------
(* The order of the checks of Login *)

\* the last login got one of the two answers of the second factor
LastTwoFactorAnswer ==
    /\ last.op = "login"
    /\ last.res.error \in {"2FA code required", "Invalid 2FA code"}

\* C24: Login answers TwoFactorRequired or InvalidTwoFactorCode only to a
\* caller who named an active user and gave that user's password; with a wrong
\* password the answer is InvalidCredentials whether the user has twoFASecret
\* set or not and whatever the code
C24_PasswordBeforeSecondFactor ==
    /\ LastTwoFactorAnswer => LastPasswordOk
    /\ \A u \in LastUsers :
           (/\ LastLoginParsed
            /\ ~Argon2Verify(BeforeUsers[u].passwordHash, last.req.password)) =>
               /\ last.res = Response(401, "Invalid credentials")
               /\ ~last.res.requires2FA

\* an active user with twoFASecret set gave a wrong password and no code
C24_Witness ==
    /\ LastLoginParsed
    /\ last.req.totpCode = None
    /\ last.res.error = "Invalid credentials"
    /\ \E u \in LastUsers :
           /\ BeforeUsers[u].isActive
           /\ BeforeUsers[u].twoFASecret # None
           /\ ~Argon2Verify(BeforeUsers[u].passwordHash, last.req.password)

-----------------------------------------------------------------------------
(* Enrolment happens once *)

\* C27: a twoFASecret that is set is never replaced: whatever the call, a
\* user who had a secret before it has the same secret after it
C27_SecretNeverReplaced ==
    \A u \in DOMAIN BeforeUsers :
        BeforeUsers[u].twoFASecret # None =>
            users[u].twoFASecret = BeforeUsers[u].twoFASecret

-----------------------------------------------------------------------------
(* Callers without a merchant *)

\* C28: requireMerchantAccess lets no caller through who is not ADMIN and
\* whose token carries no mid, whether the request names a merchant or not
C28_NoMidNoAccess ==
    last.op = "requireMerchantAccess" =>
        ((last.args.user.role # "ADMIN" /\ last.args.user.mid = None) => last.res # None)

-----------------------------------------------------------------------------
(* The frame of the cascade *)

\* the last call was a refresh that ended in the cascade
LastCascade == last.op = "refresh" /\ last.res.error = "Token reuse detected"

\* C29: the cascade for user u changes nothing but revokedAt of rows whose
\* userId is u: the rows of other users, the number of rows and the users
\* are as before
C29_CascadeFrame ==
    LastCascade =>
        /\ users = BeforeUsers
        /\ Len(refreshTokens) = Len(BeforeTokens)
        /\ \A i \in LastNamed : \A j \in DOMAIN BeforeTokens :
               IF BeforeTokens[j].userId = BeforeTokens[i].userId
               THEN refreshTokens[j] = [BeforeTokens[j] EXCEPT !.revokedAt = refreshTokens[j].revokedAt]
               ELSE refreshTokens[j] = BeforeTokens[j]

\* the cascade ran while another user held an ACTIVE row, which is ACTIVE still
C29_Witness ==
    /\ LastCascade
    /\ \E i \in LastNamed : \E j \in DOMAIN BeforeTokens :
           /\ BeforeTokens[j].userId # BeforeTokens[i].userId
           /\ Active(BeforeTokens[j], last.at)
           /\ Active(refreshTokens[j], now)
           /\ Revoked(refreshTokens[i])

-----------------------------------------------------------------------------
(* The documents router: save, list, download, soft delete *)

\* audit events a behaviour of the documents router holds
MaxAudit == 4

DocumentsBefore == last.documentsBefore

\* a response of the documents router: the documents it hands out
DocumentsResponse(status, error, docs) == [status |-> status, error |-> error, documents |-> docs]

\* a request to the documents router: the bearer token, :documentId, the
\* merchantId of the query string, and of the body the storageKey and a
\* merchantId, which saveDocumentSchema strips
DocumentReq(bearer, documentId, query, storageKey, bodyMerchantId) ==
    [bearer |-> bearer, cookie |-> None, documentId |-> documentId, query |-> query,
     storageKey |-> storageKey, bodyMerchantId |-> bodyMerchantId]

\* the claims requireAuth attached to the request
Caller(req) == The(JwtVerify(The(req.bearer), JWT_ACCESS_SECRET, now))

\* prisma.document.findUnique({where: {id}})
FindDocument(docs, id) == {docs[i] : i \in {j \in DOMAIN docs : docs[j].id = id}}

\* data.storageKey.startsWith(`merchants/${user.mid}/`)
StartsWithMerchant(key, mid) == Len(key) > 2 /\ key[1] = "merchants" /\ key[2] = mid

\* user.role !== 'ADMIN' && user.mid !== merchantId, merchantId a string or undefined
DocumentAccessDenied(user, merchantId) == user.role # "ADMIN" /\ user.mid # merchantId

\* prisma.document.create({data: {...data, merchantId: user.mid, uploadedById: user.sub}})
CreateDocument(docs, user, key) ==
    Append(docs, [id |-> DocumentId(Len(docs) + 1), merchantId |-> The(user.mid),
                  uploadedById |-> user.sub, storageKey |-> key, isDeleted |-> FALSE])

\* prisma.document.update({where: {id}, data: {isDeleted: true}})
SoftDelete(docs, id) ==
    [i \in DOMAIN docs |-> IF docs[i].id = id THEN [docs[i] EXCEPT !.isDeleted = TRUE]
                           ELSE docs[i]]

\* prisma.document.findMany({where: {merchantId, isDeleted: false}}): a key
\* whose value is undefined is no condition
FindManyDocuments(docs, merchantId) ==
    {docs[i] : i \in {j \in DOMAIN docs :
                          /\ ~docs[j].isDeleted
                          /\ IsSome(merchantId) => docs[j].merchantId = The(merchantId)}}

SaveDocument(req) ==
    LET guardRej == RouteReject(req.bearer, <<"doc:upload">>, now)
        user == Caller(req)
        reply(status, error, docs, calls) ==
            /\ last' = Done("saveDocument", req, DocumentsResponse(status, error, docs), calls)
            /\ UNCHANGED <<store, documents>>
    IN  IF IsSome(guardRej)
        THEN reply(The(guardRej).status, The(guardRej).error, {}, <<>>)
        ELSE IF ~IsSome(req.storageKey)
        THEN reply(500, "Failed to save document", {}, <<>>)
        ELSE IF ~TruthyId(user.mid)
        THEN reply(400, "Merchant ID required", {}, <<>>)
        ELSE IF ~StartsWithMerchant(The(req.storageKey), The(user.mid))
        THEN reply(403, "Invalid storage key", {}, <<>>)
        ELSE LET docs == CreateDocument(documents, user, The(req.storageKey))
             IN  /\ documents' = docs
                 /\ auditLog' = CreateAudit(auditLog, user.sub, "DOC.UPLOAD")
                 /\ last' = Done("saveDocument", req,
                                 DocumentsResponse(201, "", {docs[Len(docs)]}),
                                 <<"document.create", "auditLog.create">>)
                 /\ UNCHANGED <<users, refreshTokens>>

\* the page of the answer holds every match: the store has fewer documents
\* than the default limit of ten.  A build of prisma with strict undefined
\* checks throws on the undefined condition instead of dropping it
ListDocuments(req) ==
    LET guardRej == RouteReject(req.bearer, <<"doc:view">>, now)
        user == Caller(req)
        merchantId == JsOr(req.query, user.mid)
        reply(status, error, docs, calls) ==
            /\ last' = Done("listDocuments", req, DocumentsResponse(status, error, docs), calls)
            /\ UNCHANGED <<store, documents>>
    IN  IF IsSome(guardRej)
        THEN reply(The(guardRej).status, The(guardRej).error, {}, <<>>)
        ELSE IF DocumentAccessDenied(user, merchantId)
        THEN reply(403, "Access denied to this merchant", {}, <<>>)
        ELSE \/ reply(200, "", FindManyDocuments(documents, merchantId),
                      <<"document.findMany", "document.count">>)
             \/ /\ ~IsSome(merchantId)
                /\ reply(500, "Failed to list documents", {}, <<"document.findMany">>)

DownloadDocument(req) ==
    LET guardRej == RouteReject(req.bearer, <<"doc:view">>, now)
        user == Caller(req)
        document == FindDocument(documents, req.documentId)
        reply(status, error, docs, calls) ==
            /\ last' = Done("downloadDocument", req, DocumentsResponse(status, error, docs),
                            calls)
            /\ UNCHANGED <<store, documents>>
    IN  IF IsSome(guardRej)
        THEN reply(The(guardRej).status, The(guardRej).error, {}, <<>>)
        ELSE IF ~IsSome(document) \/ The(document).isDeleted
        THEN reply(404, "Document not found", {}, <<"document.findUnique">>)
        ELSE IF DocumentAccessDenied(user, Some(The(document).merchantId))
        THEN reply(403, "Access denied to this document", {}, <<"document.findUnique">>)
        ELSE /\ auditLog' = CreateAudit(auditLog, user.sub, "DOC.DOWNLOAD")
             /\ last' = Done("downloadDocument", req, DocumentsResponse(200, "", document),
                             <<"document.findUnique", "auditLog.create">>)
             /\ UNCHANGED <<users, refreshTokens, documents>>

DeleteDocument(req) ==
    LET guardRej == RouteReject(req.bearer, <<"doc:delete">>, now)
        user == Caller(req)
        document == FindDocument(documents, req.documentId)
        reply(status, error, docs, calls) ==
            /\ last' = Done("deleteDocument", req, DocumentsResponse(status, error, docs),
                            calls)
            /\ UNCHANGED <<store, documents>>
    IN  IF IsSome(guardRej)
        THEN reply(The(guardRej).status, The(guardRej).error, {}, <<>>)
        ELSE IF ~IsSome(document)
        THEN reply(404, "Document not found", {}, <<"document.findUnique">>)
        ELSE IF DocumentAccessDenied(user, Some(The(document).merchantId))
        THEN reply(403, "Access denied to this document", {}, <<"document.findUnique">>)
        ELSE /\ documents' = SoftDelete(documents, req.documentId)
             /\ auditLog' = CreateAudit(auditLog, user.sub, "DOC.DELETE")
             /\ last' = Done("deleteDocument", req, DocumentsResponse(200, "", {}),
                             <<"document.findUnique", "document.update", "auditLog.create">>)
             /\ UNCHANGED <<users, refreshTokens>>

NoDocumentReq == DocumentReq(None, DocumentId(1), None, None, None)

\* from the holder of the newest token: a key under each merchant's prefix,
\* with and without a merchantId in the body, and a body without a key
SaveDocumentInputs ==
    {[NoDocumentReq EXCEPT !.bearer = Some(tok), !.storageKey = k, !.bodyMerchantId = b] :
        tok \in NewestIssued,
        k \in {None, Some(StorageKey("m1", "c")), Some(StorageKey("m2", "c"))},
        b \in {None, Some("m2")}}

ListDocumentsInputs ==
    {[NoDocumentReq EXCEPT !.bearer = b, !.query = q] :
        b \in {None} \cup {Some(tok) : tok \in NewestIssued},
        q \in {None, Some("m1"), Some("m2")}}

\* the two seeded documents, the first one saved later, and an unknown id
DocumentIdInputs ==
    {[NoDocumentReq EXCEPT !.bearer = Some(tok), !.documentId = DocumentId(n)] :
        tok \in NewestIssued, n \in {1, 2, 3, 9}}

\* the holder of the newest token gives the platform administrator's account
\* or the merchant administrator's account another role
RoleUpdateInputs ==
    {UpdateUserReq(Some(tok), id, Some("MERCHANT_MANAGER"), None) :
        tok \in NewestIssued, id \in {"u1", "u2"}}

DoSaveDocument ==
    \E req \in SaveDocumentInputs :
        /\ Len(auditLog) < MaxAudit
        /\ SaveDocument(req)
        /\ UNCHANGED <<now, ticks, issued, consumed, slots>>

DoListDocuments ==
    \E req \in ListDocumentsInputs :
        ListDocuments(req) /\ UNCHANGED <<now, ticks, issued, consumed, slots>>

DoDownloadDocument ==
    \E req \in DocumentIdInputs :
        /\ Len(auditLog) < MaxAudit
        /\ DownloadDocument(req)
        /\ UNCHANGED <<now, ticks, issued, consumed, slots>>

DoDeleteDocument ==
    \E req \in DocumentIdInputs :
        /\ Len(auditLog) < MaxAudit
        /\ DeleteDocument(req)
        /\ UNCHANGED <<now, ticks, issued, consumed, slots>>

DoRoleUpdate ==
    \E req \in RoleUpdateInputs :
        /\ Len(auditLog) < MaxAudit
        /\ UpdateUser(req)
        /\ UNCHANGED <<documents, now, ticks, issued, consumed, slots>>

\* the documents router for the callers the sessions and the role updates make
DocumentsNext ==
    \/ DoSessionLogin
    \/ DoRoleUpdate
    \/ DoSaveDocument
    \/ DoListDocuments
    \/ DoDownloadDocument
    \/ DoDeleteDocument

DocumentsSpec == Init /\ [][DocumentsNext]_vars

\* the last call came through requireAuth with the token of a caller who is
\* not ADMIN
LastNonAdmin == LastAuthenticated /\ LastClaims.role # "ADMIN"

\* C21: a caller who is not ADMIN gets, from list and from download, only
\* documents whose merchantId is the mid of the caller's token, soft-deletes
\* only such documents, and every document saved has the mid of the caller's
\* token as merchantId
C21_DocumentsIsolated ==
    /\ (LastNonAdmin /\ last.op \in {"listDocuments", "downloadDocument"}) =>
           \A d \in last.res.documents : Some(d.merchantId) = LastClaims.mid
    /\ (LastNonAdmin /\ last.op = "deleteDocument") =>
           \A i \in DOMAIN DocumentsBefore :
               documents[i] # DocumentsBefore[i] =>
                   Some(DocumentsBefore[i].merchantId) = LastClaims.mid
    /\ (last.op = "saveDocument" /\ last.res.status = 201) =>
           /\ Len(documents) = Len(DocumentsBefore) + 1
           /\ Some(documents[Len(documents)].merchantId) = LastClaims.mid
           /\ \A i \in DOMAIN DocumentsBefore : documents[i] = DocumentsBefore[i]

====
